---- MODULE Spec2Model ----
(***************************************************************************)
(* The recording session controller of BotMR:                              *)
(* frontend/app/screens/RecordingScreen.tsx.                               *)
(*                                                                         *)
(* The screen holds two pieces of React state, `recording` (the expo-av    *)
(* capture handle) and `recordingState`, and two interval refs.  Every     *)
(* handler is an async function: it reads the state of the render in       *)
(* which it was created (its closure) and yields at every await.  The      *)
(* model has one action per handler segment between two awaits; a          *)
(* setState is a commit, and the effect of lines 66-85 runs with the       *)
(* commit that changes its dependencies.  The tracker, the capture         *)
(* library and AsyncStorage answer nondeterministically.                   *)
(***************************************************************************)
EXTENDS Integers, Sequences, FiniteSets, Bags

\* ---------------------------------------------------------------- bounds
\* startRecording invocations in a run with overlapping sessions
MaxStarts == 2
\* largest value of recordingTime in a run of one session
MaxTime == 5
\* markers per session
MaxMarkers == 1
\* seconds counted while the timer is cleared
MaxPausedSecs == 3
\* pauseRecording invocations awaiting the capture
MaxPauses == 1
\* heartbeat requests awaiting the tracker
MaxPings == 1
\* fallback notices shown in one session
MaxNotices == 2

\* A run is explored up to the limits of one profile.  Serial follows one
\* session for long, SerialBeat one session with its heartbeat.  The next
\* three follow several sessions whose handlers overlap: OverlapTimer with
\* the timer (one tick per session), OverlapBeat with the heartbeat,
\* OverlapMarker with a marker.  Teardown follows one short session on a
\* screen that may be unmounted at any moment.
Serial ==
  [starts |-> 1, time |-> MaxTime, markers |-> MaxMarkers,
   pausedSecs |-> MaxPausedSecs, pauses |-> MaxPauses, pings |-> 0,
   notices |-> 1,
   teardown |-> FALSE]
SerialBeat ==
  [starts |-> 1, time |-> 1, markers |-> 0, pausedSecs |-> 1,
   pauses |-> MaxPauses, pings |-> MaxPings, notices |-> MaxNotices,
   teardown |-> FALSE]
OverlapTimer ==
  [starts |-> MaxStarts, time |-> 1, markers |-> 0, pausedSecs |-> 0,
   pauses |-> 0, pings |-> 0, notices |-> 1,
   teardown |-> FALSE]
OverlapBeat ==
  [starts |-> MaxStarts, time |-> 0, markers |-> 0, pausedSecs |-> 0,
   pauses |-> 0, pings |-> 1, notices |-> 1,
   teardown |-> FALSE]
OverlapMarker ==
  [starts |-> 2, time |-> 0, markers |-> 1, pausedSecs |-> 0,
   pauses |-> 0, pings |-> 0, notices |-> 1,
   teardown |-> FALSE]
Teardown ==
  [starts |-> 1, time |-> 1, markers |-> 0, pausedSecs |-> 0,
   pauses |-> 1, pings |-> 1, notices |-> 1,
   teardown |-> TRUE]
Profiles == {Serial, SerialBeat, OverlapTimer, OverlapBeat, OverlapMarker, Teardown}

\* ------------------------------------------------------------- constants
\* sessionId: null, recording: null
Null == 0
\* sessionData.sessionId of a response body that has no sessionId
Undefined == -1

VARIABLES
  limits,         \* the profile of this run (never changes)
  mounted,        \* the screen is mounted
  recording,      \* useState<Audio.Recording | null>: capture handle or Null
  isRecording,    \* recordingState.isRecording
  isPaused,       \* recordingState.isPaused
  recordingTime,  \* recordingState.recordingTime
  mode,           \* recordingState.mode
  sessionId,      \* recordingState.sessionId
  markers,        \* recordingState.markers
  timerActive,    \* timerRef.current is a live interval
  heartbeat,      \* heartbeatRef.current: [active, sessionId, mode]
  timers,         \* number of live 1-second intervals
  beats,          \* number of live 10-second intervals
  captures,       \* capture objects created so far: handle -> status
  starts,         \* bag of startRecording invocations at an await
  stops,          \* set of stopRecording invocations at an await
  pauses,         \* bag of pauseRecording invocations at an await
  pings,          \* bag of heartbeat requests awaiting the tracker (closure's mode)
  issued,         \* tracker: number of session ids issued
  startRequests,  \* tracker: number of session/start requests sent
  stopRequests,   \* tracker: bodies of the session/stop requests sent
  store,          \* AsyncStorage: the items under the keys recording_<id>
  queue,          \* AsyncStorage: the list under recording_queue
  startsInvoked,  \* history: startRecording invocations
  stopIgnored,    \* history: a stopRecording invocation returned at its guard
  sessionCount,   \* history: start commits
  openSid,        \* history: session started and not yet reset by its stop
  ticks,          \* history: timer ticks in state Recording since the start
  added,          \* history: markers added since the start
  pausedSecs,     \* history: seconds spent with the timer cleared
  notices,        \* history: fallback notices shown since the last start
  permission,     \* history: the answer to the last permission request
  lastStart,      \* history: mode sent and mode committed by the last start
  lastStop        \* history: what the stopRecording that finished last did

session == <<isRecording, isPaused, recordingTime, mode, sessionId, markers>>
refs == <<timerActive, heartbeat, timers, beats>>
inflight == <<starts, stops, pauses, pings>>
tracker == <<issued, startRequests, stopRequests>>
storage == <<store, queue>>
history == <<startsInvoked, stopIgnored, sessionCount, openSid, ticks, added,
             pausedSecs, permission, notices, lastStart, lastStop>>
vars == <<limits, mounted, recording, session, refs, captures, inflight, tracker, storage,
          history>>

\* ------------------------------------------------------------- helpers
One(x) == SetToBag({x})

\* JavaScript truthiness of a sessionId (string | null | undefined)
Truthy(sid) == sid # Null /\ sid # Undefined

NoHeartbeat == [active |-> FALSE, sessionId |-> Null, mode |-> "local"]

\* mutant of TimerEffect: the timer of the first version of the screen,
\* which runs whenever isRecording is set
TimerEffectIgnoresPause(rec, paused) == rec

\* line 67: the condition under which the effect starts timer and heartbeat
TimerEffect(rec, paused) == rec /\ ~paused

\* lines 142-165: startHeartbeat, called by the effect with the state of
\* the render the effect belongs to; the interval's callback keeps that state
startHeartbeat(sid, m) ==
  IF ~Truthy(sid) THEN NoHeartbeat
  ELSE [active |-> TRUE, sessionId |-> sid, mode |-> m]

\* mutant of Cleared: the interval is left running
ClearedNothing(n, live) == n

\* lines 61-62, 78-79, 82-83: if (ref.current) clearInterval(ref.current),
\* for n live intervals of which the ref holds a live one or none
Cleared(n, live) == IF live THEN n - 1 ELSE n

\* line 85: the effect runs only when isRecording or isPaused changed
DepsChanged(rec, paused) == <<isRecording, isPaused>> # <<rec, paused>>

\* lines 66-85: the effect (cleanup of the previous run, then this run),
\* for a commit that makes the state (rec, paused, sid, m)
Effect(rec, paused, sid, m) ==
  IF DepsChanged(rec, paused)
  THEN /\ timerActive' = TimerEffect(rec, paused)
       /\ timers' = Cleared(timers, timerActive)
                       + (IF TimerEffect(rec, paused) THEN 1 ELSE 0)
       /\ heartbeat' = IF TimerEffect(rec, paused)
                       THEN startHeartbeat(sid, m) ELSE NoHeartbeat
       /\ beats' = Cleared(beats, heartbeat.active)
                      + (IF TimerEffect(rec, paused) /\ Truthy(sid) THEN 1 ELSE 0)
  ELSE UNCHANGED refs

\* history values before any start committed or any stop finished
NoStart ==
  [done |-> FALSE, fromIdle |-> TRUE, duringStop |-> FALSE, sent |-> "local",
   mode |-> "local"]
NoStop ==
  [done |-> FALSE, sid |-> Null, duration |-> 0, markers |-> <<>>,
   closed |-> FALSE, remote |-> "none", stored |-> FALSE, listed |-> FALSE,
   alerted |-> FALSE]

Init ==
  /\ limits \in Profiles
  /\ mounted = TRUE
  /\ recording = Null
  /\ isRecording = FALSE
  /\ isPaused = FALSE
  /\ recordingTime = 0
  /\ mode = "local"
  /\ sessionId = Null
  /\ markers = <<>>
  /\ timerActive = FALSE
  /\ heartbeat = NoHeartbeat
  /\ timers = 0
  /\ beats = 0
  /\ captures = <<>>
  /\ starts = EmptyBag
  /\ stops = {}
  /\ pauses = EmptyBag
  /\ pings = EmptyBag
  /\ issued = 0
  /\ startRequests = 0
  /\ stopRequests = {}
  /\ store = {}
  /\ queue = <<>>
  /\ startsInvoked = 0
  /\ stopIgnored = FALSE
  /\ sessionCount = 0
  /\ openSid = Null
  /\ ticks = 0
  /\ added = <<>>
  /\ pausedSecs = 0
  /\ notices = 0
  /\ permission = "none"
  /\ lastStart = NoStart
  /\ lastStop = NoStop

\* ------------------------------------------------- Stop/Start button
\* mutants of OnPress: a button that always starts, one that always stops
OnPressAlwaysStart(rec) == "start"
OnPressAlwaysStop(rec) == "stop"

\* line 526: onPress={recordingState.isRecording ? stopRecording : startRecording}
OnPress(rec) == IF rec THEN "stop" ELSE "start"

\* ------------------------------------------------------ startRecording
\* lines 194-196: the invocation runs to its first await, the permission
\* request; the closure holds the mode of the render that was pressed (the
\* record also notes whether a stopRecording was still finalizing)
startRecording ==
  /\ mounted
  /\ startsInvoked < limits.starts
  /\ starts' = starts (+) One([pc |-> "permission", mode |-> mode,
                               sid |-> Null, duringStop |-> stops # {}])
  /\ startsInvoked' = startsInvoked + 1
  /\ UNCHANGED <<limits, mounted, recording, session, refs, captures, stops,
                 pauses, pings, tracker, storage, stopIgnored, sessionCount,
                 openSid, ticks, added, pausedSecs, permission, notices, lastStart,
                 lastStop>>

\* what Audio.requestPermissionsAsync can answer
PermissionStatus == {"granted", "denied", "undetermined"}

\* mutant of requestPermissions: the status of the answer is not looked at
requestPermissionsIgnoresStatus(status, threw) == ~threw

\* lines 176-192: requestPermissions is true only for the answer 'granted';
\* another status shows the permission alert, a throw is logged
requestPermissions(status, threw) == ~threw /\ status = "granted"

\* the answer as the history keeps it
Answer(status, threw) == IF threw THEN "threw" ELSE status

\* the histories that startRecording's first segments leave alone
startHistory == <<startsInvoked, stopIgnored, sessionCount, openSid, ticks, added, notices,
                  pausedSecs, lastStart, lastStop>>

\* lines 196-197: hasPermission is false and startRecording returns
StartDenied ==
  \E s \in BagToSet(starts), status \in PermissionStatus, threw \in BOOLEAN :
    /\ s.pc = "permission"
    /\ ~requestPermissions(status, threw)
    /\ permission' = Answer(status, threw)
    /\ starts' = starts (-) One(s)
    /\ UNCHANGED <<limits, mounted, recording, session, refs, captures, stops,
                   pauses, pings, tracker, storage, startHistory>>

\* lines 196-226: hasPermission is true; setAudioModeAsync, then the
\* session/start request is sent with the closure's mode
StartGranted ==
  \E s \in BagToSet(starts), status \in PermissionStatus, threw \in BOOLEAN :
    /\ s.pc = "permission"
    /\ requestPermissions(status, threw)
    /\ permission' = Answer(status, threw)
    /\ starts' = (starts (-) One(s)) (+) One([s EXCEPT !.pc = "session"])
    /\ startRequests' = startRequests + 1
    /\ UNCHANGED <<limits, mounted, recording, session, refs, captures, stops,
                   pauses, pings, issued, stopRequests, storage,
                   startHistory>>

\* lines 207-212 and 260-263: hasPermission is true and setAudioModeAsync
\* throws; the catch shows the error alert
StartAudioModeFailed ==
  \E s \in BagToSet(starts), status \in PermissionStatus, threw \in BOOLEAN :
    /\ s.pc = "permission"
    /\ requestPermissions(status, threw)
    /\ permission' = Answer(status, threw)
    /\ starts' = starts (-) One(s)
    /\ UNCHANGED <<limits, mounted, recording, session, refs, captures, stops,
                   pauses, pings, tracker, storage, startHistory>>

\* lines 215-228: the tracker answers with a fresh sessionId, or with a body
\* that has none (an error body); createAsync is called next
StartSession ==
  \E s \in BagToSet(starts), hasId \in BOOLEAN :
    /\ s.pc = "session"
    /\ issued' = IF hasId THEN issued + 1 ELSE issued
    /\ starts' = (starts (-) One(s)) (+)
                 One([s EXCEPT !.pc = "create",
                               !.sid = IF hasId THEN issued + 1 ELSE Undefined])
    /\ UNCHANGED <<limits, mounted, recording, session, refs, captures, stops,
                   pauses, pings, startRequests, stopRequests, storage,
                   history>>

\* lines 215-228 and 260-263: fetch rejects (tracker unreachable) or the
\* body is not JSON; the catch shows the error alert
StartSessionFailed ==
  \E s \in BagToSet(starts) :
    /\ s.pc = "session"
    /\ starts' = starts (-) One(s)
    /\ UNCHANGED <<limits, mounted, recording, session, refs, captures, stops,
                   pauses, pings, tracker, storage, history>>

\* mutant of StartState: only the flags and the id are set
StartStateKeepsResidue(sid) ==
  [isRecording |-> TRUE, isPaused |-> FALSE, recordingTime |-> recordingTime,
   mode |-> mode, sessionId |-> sid, markers |-> markers]

\* lines 251-258: the state update of a successful start; mode is kept
StartState(sid) ==
  [isRecording |-> TRUE, isPaused |-> FALSE, recordingTime |-> 0,
   mode |-> mode, sessionId |-> sid, markers |-> <<>>]

\* lines 231-258: createAsync gives a capture; setRecording and the state
\* update commit, and the effect starts timer and heartbeat
StartCreated ==
  \E s \in BagToSet(starts) :
    LET st == StartState(s.sid) IN
    /\ s.pc = "create"
    /\ starts' = starts (-) One(s)
    /\ captures' = Append(captures, "recording")
    /\ IF mounted
       THEN /\ recording' = Len(captures) + 1
            /\ isRecording' = st.isRecording
            /\ isPaused' = st.isPaused
            /\ recordingTime' = st.recordingTime
            /\ mode' = st.mode
            /\ sessionId' = st.sessionId
            /\ markers' = st.markers
            /\ Effect(st.isRecording, st.isPaused, st.sessionId, st.mode)
            /\ sessionCount' = sessionCount + 1
            /\ openSid' = s.sid
            /\ ticks' = 0
            /\ added' = <<>>
            /\ pausedSecs' = 0
            /\ notices' = 0
            /\ lastStart' = [done |-> TRUE, fromIdle |-> ~isRecording,
                              duringStop |-> s.duringStop,
                              sent |-> s.mode, mode |-> st.mode]
       ELSE UNCHANGED <<recording, session, refs, sessionCount, openSid,
                        ticks, added, pausedSecs, notices, lastStart>>
    /\ UNCHANGED <<limits, mounted, stops, pauses, pings, tracker, storage,
                   startsInvoked, stopIgnored, permission, lastStop>>

\* lines 231-248 and 260-263: createAsync throws
StartCreateFailed ==
  \E s \in BagToSet(starts) :
    /\ s.pc = "create"
    /\ starts' = starts (-) One(s)
    /\ UNCHANGED <<limits, mounted, recording, session, refs, captures, stops,
                   pauses, pings, tracker, storage, history>>

\* ------------------------------------------------------ pauseRecording
\* lines 266-274/278, button of lines 508-511 (disabled unless isRecording):
\* the invocation reads isPaused of its render and awaits the capture
pauseRecording ==
  /\ mounted
  /\ isRecording
  /\ recording # Null
  /\ BagCardinality(pauses) < limits.pauses
  /\ pauses' = pauses (+) One([rec |-> recording, wasPaused |-> isPaused])
  /\ UNCHANGED <<limits, mounted, recording, session, refs, captures, starts,
                 stops, pings, tracker, storage, history>>

\* lines 275 and 279: the flag the invocation sets once the capture answered
PauseFlag(wasPaused) == ~wasPaused

\* lines 273-281: startAsync / pauseAsync resolved (the capture was not
\* unloaded before it answered); isPaused is committed and the effect runs
\* if the flag changed
PauseDone ==
  \E p \in BagToSet(pauses) :
    /\ captures[p.rec] # "unloaded"
    /\ pauses' = pauses (-) One(p)
    /\ captures' = [captures EXCEPT ![p.rec] =
                      IF p.wasPaused THEN "recording" ELSE "paused"]
    /\ IF mounted
       THEN /\ isPaused' = PauseFlag(p.wasPaused)
            /\ Effect(isRecording, PauseFlag(p.wasPaused), sessionId, mode)
       ELSE UNCHANGED <<isPaused, refs>>
    /\ UNCHANGED <<limits, mounted, recording, isRecording, recordingTime,
                   mode, sessionId, markers, starts, stops, pings, tracker,
                   storage, history>>

\* lines 282-284: startAsync / pauseAsync threw; the error is only logged
PauseFailed ==
  \E p \in BagToSet(pauses) :
    /\ pauses' = pauses (-) One(p)
    /\ UNCHANGED <<limits, mounted, recording, session, refs, captures,
                   starts, stops, pings, tracker, storage, history>>

\* ----------------------------------------------------------- addMarker
\* lines 288-291: the marker made from the render's state
Marker(time, count) == [time |-> time, label |-> count + 1]

\* lines 287-296, button of lines 489-492 (disabled unless isRecording)
addMarker ==
  /\ mounted
  /\ isRecording
  /\ Len(markers) < limits.markers
  /\ markers' = Append(markers, Marker(recordingTime, Len(markers)))
  /\ added' = Append(added, Marker(recordingTime, Len(markers)))
  /\ UNCHANGED <<limits, mounted, recording, isRecording, isPaused,
                 recordingTime, mode, sessionId, refs, captures, inflight,
                 tracker, storage, startsInvoked, stopIgnored, sessionCount,
                 openSid, ticks, pausedSecs, permission, notices, lastStart, lastStop>>

\* --------------------------------------------------------------- timer
\* line 70: the update of one timer tick
TickUpdate(t) == t + 1

\* lines 69-71: the interval of timerRef fires
Tick ==
  /\ timers > 0
  /\ recordingTime < limits.time
  /\ recordingTime' = TickUpdate(recordingTime)
  /\ ticks' = IF isRecording /\ ~isPaused THEN ticks + 1 ELSE ticks
  /\ UNCHANGED <<limits, mounted, recording, isRecording, isPaused, mode,
                 sessionId, markers, refs, captures, inflight, tracker,
                 storage, startsInvoked, stopIgnored, sessionCount, openSid,
                 added, pausedSecs, permission, notices, lastStart, lastStop>>

\* lines 81-84: a second passes in state Paused, where the interval of
\* timerRef is cleared and nothing fires
PausedSecond ==
  /\ isRecording /\ isPaused
  /\ timers = 0
  /\ pausedSecs < limits.pausedSecs
  /\ pausedSecs' = pausedSecs + 1
  /\ UNCHANGED <<limits, mounted, recording, session, refs, captures,
                 inflight, tracker, storage, startsInvoked, stopIgnored,
                 sessionCount, openSid, ticks, added, permission, notices, lastStart,
                 lastStop>>

\* ----------------------------------------------------------- heartbeat
\* lines 145-155: the interval of heartbeatRef fires and sends a ping with
\* the sessionId of the interval's closure
HeartbeatTick ==
  /\ beats > 0
  /\ notices < limits.notices
  /\ BagCardinality(pings) < limits.pings
  /\ pings' = pings (+) One([mode |-> heartbeat.mode])
  /\ UNCHANGED <<limits, mounted, recording, session, refs, captures, starts,
                 stops, pauses, tracker, storage, history>>

\* line 155: the ping resolved
HeartbeatOk ==
  \E p \in BagToSet(pings) :
    /\ pings' = pings (-) One(p)
    /\ UNCHANGED <<limits, mounted, recording, session, refs, captures,
                   starts, stops, pauses, tracker, storage, startsInvoked,
                   stopIgnored, sessionCount, openSid, ticks, added,
                   pausedSecs, permission, notices, lastStart, lastStop>>

\* mutant of HeartbeatFallback: the failure is only logged
HeartbeatNoFallback(closureMode, current) == current

\* lines 159-162: the mode after a failed ping whose closure saw closureMode
HeartbeatFallback(closureMode, current) ==
  IF closureMode = "local" THEN "cloud" ELSE current

\* lines 159-160: the toast 'Switched to cloud for continuity' is shown when
\* the mode the interval's closure saw is local
FallbackNotice(closureMode) == closureMode = "local"

\* lines 156-163: the ping was rejected
HeartbeatFailed ==
  \E p \in BagToSet(pings) :
    /\ pings' = pings (-) One(p)
    /\ mode' = IF mounted THEN HeartbeatFallback(p.mode, mode) ELSE mode
    /\ notices' = IF mounted /\ FallbackNotice(p.mode)
                  THEN notices + 1 ELSE notices
    /\ UNCHANGED <<limits, mounted, recording, isRecording, isPaused,
                   recordingTime, sessionId, markers, refs, captures, starts,
                   stops, pauses, tracker, storage, startsInvoked,
                   stopIgnored, sessionCount, openSid, ticks, added,
                   pausedSecs, permission, lastStart, lastStop>>

\* ------------------------------------------------------- stopRecording
\* line 304: the invocation goes on only with a capture and a sessionId
StopGuard(rec, sid) == rec # Null /\ Truthy(sid)

\* lines 303-326: the invocation; with the guard passed it commits
\* isRecording = false, isPaused = false (the effect clears both intervals)
\* and awaits stopAndUnloadAsync.  The record keeps what the closure holds.
stopRecording ==
  /\ mounted
  /\ \/ /\ ~StopGuard(recording, sessionId)
        /\ stopIgnored' = TRUE
        /\ UNCHANGED <<limits, mounted, recording, session, refs, stops>>
     \/ /\ StopGuard(recording, sessionId)
        /\ UNCHANGED stopIgnored
        /\ isRecording' = FALSE
        /\ isPaused' = FALSE
        /\ Effect(FALSE, FALSE, sessionId, mode)
        /\ stops' = stops \cup
             {[pc |-> "unload", rec |-> recording, sid |-> sessionId,
               duration |-> recordingTime, markers |-> markers,
               ticks |-> ticks, added |-> added, paused |-> pausedSecs,
               wasPaused |-> isPaused,
               remote |-> "none", stored |-> FALSE, snapshot |-> <<>>]}
        /\ UNCHANGED <<recording, recordingTime, mode, sessionId, markers>>
  /\ UNCHANGED <<limits, mounted, captures, starts, pauses, pings, tracker,
                 storage, startsInvoked, sessionCount, openSid, ticks, added,
                 pausedSecs, permission, notices, lastStart, lastStop>>

\* what a finished invocation did, for the history
LogOf(t, closed, listed, alerted) ==
  [done |-> TRUE, sid |-> t.sid, duration |-> t.duration, markers |-> t.markers,
   closed |-> closed, remote |-> t.remote, stored |-> t.stored,
   listed |-> listed, alerted |-> alerted]

\* lines 361-369: the body of the session/stop request
StopStats(t) ==
  [sessionId |-> t.sid, duration |-> t.duration, fileUri |-> t.rec,
   markers |-> t.markers]

\* lines 373-380: the item written under recording_<sessionId>
QueueItem(t) ==
  [sessionId |-> t.sid, uri |-> t.rec, duration |-> t.duration,
   markers |-> t.markers, status |-> "pending_upload"]

\* lines 342-347: the state update that ends stopRecording
ResetState ==
  [recordingTime |-> 0, sessionId |-> Null, markers |-> <<>>]

\* lines 336-347: queueRecordingForProcessing returned (it never throws);
\* setRecording(null) and the reset commit; isRecording and isPaused are not
\* written, so the effect does not run
StopReset(t, remote, stored, listed) ==
  /\ stops' = stops \ {t}
  /\ IF mounted
     THEN /\ recording' = Null
          /\ recordingTime' = ResetState.recordingTime
          /\ sessionId' = ResetState.sessionId
          /\ markers' = ResetState.markers
          /\ openSid' = IF openSid = t.sid THEN Null ELSE openSid
     ELSE UNCHANGED <<recording, recordingTime, sessionId, markers, openSid>>
  /\ lastStop' = LogOf([t EXCEPT !.remote = remote, !.stored = stored],
                       TRUE, listed, FALSE)
  /\ UNCHANGED <<limits, mounted, isRecording, isPaused, mode, refs, starts,
                 pauses, pings, issued, startRequests, startsInvoked,
                 stopIgnored, sessionCount, ticks, added, pausedSecs,
                 permission, notices, lastStart>>

\* lines 326-333 and 358-370: stopAndUnloadAsync resolved; the capture is
\* closed and queueRecordingForProcessing sends the session/stop request
StopUnloaded ==
  \E t \in stops :
    /\ t.pc = "unload"
    /\ captures' = [captures EXCEPT ![t.rec] = "unloaded"]
    /\ stopRequests' = stopRequests \cup {StopStats(t)}
    /\ stops' = (stops \ {t}) \cup {[t EXCEPT !.pc = "notify"]}
    /\ UNCHANGED <<limits, mounted, recording, session, refs, starts, pauses,
                   pings, issued, startRequests, storage, history>>

\* lines 326 and 349-352: stopAndUnloadAsync threw; the catch shows the
\* error alert and nothing is reset
StopUnloadFailed ==
  \E t \in stops :
    /\ t.pc = "unload"
    /\ stops' = stops \ {t}
    /\ lastStop' = LogOf(t, FALSE, FALSE, TRUE)
    /\ UNCHANGED <<limits, mounted, recording, session, refs, captures,
                   starts, pauses, pings, tracker, storage, startsInvoked,
                   stopIgnored, sessionCount, openSid, ticks, added,
                   pausedSecs, permission, notices, lastStart>>

\* lines 358-382: the session/stop request resolved, with any HTTP status
\* (the response is not read); setItem(recording_<id>) is called
StopNotified ==
  \E t \in stops, status \in {"ok", "httpError"} :
    /\ t.pc = "notify"
    /\ stops' = (stops \ {t}) \cup {[t EXCEPT !.pc = "setItem", !.remote = status]}
    /\ UNCHANGED <<limits, mounted, recording, session, refs, captures,
                   starts, pauses, pings, tracker, storage, history>>

\* lines 358-370 and 390-392: the session/stop request was rejected; the
\* catch of queueRecordingForProcessing logs it and the function returns
StopNotifyFailed ==
  \E t \in stops :
    /\ t.pc = "notify"
    /\ StopReset(t, "rejected", FALSE, FALSE)
    /\ UNCHANGED <<captures, stopRequests, storage>>

\* mutant of SetItem: the write is lost
SetItemLost(items, item) == items

\* line 382: AsyncStorage.setItem(recording_<id>, item) replaces what the
\* key held
SetItem(items, item) ==
  {i \in items : i.sessionId # item.sessionId} \cup {item}

\* lines 382-386: setItem(recording_<id>) and getItem(recording_queue)
\* resolved; the list is copied as it is now and setItem(recording_queue) is
\* called.  (No other handler touches the key recording_<id>, so the two
\* awaits are taken in one step.)
StopStored ==
  \E t \in stops :
    /\ t.pc = "setItem"
    /\ store' = SetItem(store, QueueItem(t))
    /\ stops' = (stops \ {t}) \cup
                {[t EXCEPT !.pc = "setQueue", !.stored = TRUE, !.snapshot = queue]}
    /\ UNCHANGED <<limits, mounted, recording, session, refs, captures,
                   starts, pauses, pings, tracker, queue, history>>

\* lines 382 and 390-392: setItem(recording_<id>) threw; the catch logs it
\* and queueRecordingForProcessing returns
StopStoreFailed ==
  \E t \in stops :
    /\ t.pc = "setItem"
    /\ StopReset(t, t.remote, FALSE, FALSE)
    /\ UNCHANGED <<captures, stopRequests, storage>>

\* lines 382-385 and 390-392: the item is stored, getItem(recording_queue)
\* threw
StopQueueReadFailed ==
  \E t \in stops :
    /\ t.pc = "setItem"
    /\ store' = SetItem(store, QueueItem(t))
    /\ StopReset(t, t.remote, TRUE, FALSE)
    /\ UNCHANGED <<captures, stopRequests, queue>>

\* lines 386-388: the list this invocation writes back
QueueData(snapshot, sid) == Append(snapshot, sid)

\* line 388: the list is written and queueRecordingForProcessing returns
StopQueued ==
  \E t \in stops :
    /\ t.pc = "setQueue"
    /\ queue' = QueueData(t.snapshot, t.sid)
    /\ StopReset(t, t.remote, TRUE, TRUE)
    /\ UNCHANGED <<captures, stopRequests, store>>

\* lines 388 and 390-392: setItem(recording_queue) threw
StopQueueWriteFailed ==
  \E t \in stops :
    /\ t.pc = "setQueue"
    /\ StopReset(t, t.remote, TRUE, FALSE)
    /\ UNCHANGED <<captures, stopRequests, storage>>

\* ------------------------------------------------------------ teardown
\* lines 59-64 and 76-79: the screen is unmounted; the cleanups of both
\* effects clear the intervals the refs hold.  Handlers at an await go on,
\* and their state updates are dropped.
Unmount ==
  /\ mounted
  /\ limits.teardown
  /\ mounted' = FALSE
  /\ timerActive' = FALSE
  /\ timers' = Cleared(timers, timerActive)
  /\ heartbeat' = NoHeartbeat
  /\ beats' = Cleared(beats, heartbeat.active)
  /\ UNCHANGED <<limits, recording, session, captures, inflight, tracker,
                 storage, history>>

\* lines 523-536: a press of the Stop/Start button
PressStopStart ==
  \/ OnPress(isRecording) = "start" /\ startRecording
  \/ OnPress(isRecording) = "stop" /\ stopRecording

Next ==
  \/ PressStopStart
  \/ StartDenied
  \/ StartGranted
  \/ StartAudioModeFailed
  \/ StartSession
  \/ StartSessionFailed
  \/ StartCreated
  \/ StartCreateFailed
  \/ pauseRecording
  \/ PauseDone
  \/ PauseFailed
  \/ addMarker
  \/ Tick
  \/ PausedSecond
  \/ HeartbeatTick
  \/ HeartbeatOk
  \/ HeartbeatFailed
  \/ StopUnloaded
  \/ StopUnloadFailed
  \/ StopNotified
  \/ StopNotifyFailed
  \/ StopStored
  \/ StopStoreFailed
  \/ StopQueueReadFailed
  \/ StopQueued
  \/ StopQueueWriteFailed
  \/ Unmount

Spec == Init /\ [][Next]_vars

\* The runs in which what the runtime schedules does happen: a live
\* interval fires again (setInterval, lines 69 and 145), and a heartbeat
\* request that was sent is answered or fails.
LiveSpec ==
  /\ Spec
  /\ WF_vars(Tick)
  /\ WF_vars(HeartbeatTick)
  /\ WF_vars(HeartbeatOk \/ HeartbeatFailed)

\* The runs in which everything on the device answers (the permission
\* dialog, the capture library, AsyncStorage) while the tracker may leave
\* any request unanswered: no fetch of the screen sets a timeout or an
\* abort signal (lines 146, 215, 358).
DeviceAnswersSpec ==
  /\ Spec
  /\ WF_vars(StartDenied \/ StartGranted \/ StartAudioModeFailed)
  /\ WF_vars(StartCreated \/ StartCreateFailed)
  /\ WF_vars(PauseDone \/ PauseFailed)
  /\ WF_vars(StopUnloaded \/ StopUnloadFailed)
  /\ WF_vars(StopStored \/ StopStoreFailed \/ StopQueueReadFailed)
  /\ WF_vars(StopQueued \/ StopQueueWriteFailed)

\* ================================================================ claims

\* C1: whenever stopRecording finishes for a session that was recording,
\* either the capture was closed, the stop report was delivered to the
\* tracker and the item recording_<sessionId> was written, or an error was
\* shown to the user.
C1_StopNeverSilentlyDrops ==
  lastStop.done =>
    \/ lastStop.closed /\ lastStop.remote = "ok" /\ lastStop.stored
    \/ lastStop.alerted

\* C2: after a stop whose POST recordings/stop was rejected, the store holds
\* the item recording_<sessionId> with status pending_upload and the
\* sessionId is in the list recording_queue.
C2_RejectedStopLeavesQueueEntry ==
  (lastStop.done /\ lastStop.remote = "rejected") =>
    /\ \E i \in store : i.sessionId = lastStop.sid /\ i.status = "pending_upload"
    /\ \E k \in 1..Len(queue) : queue[k] = lastStop.sid

\* C3: after a stop whose finalization failed (capture not closed, report
\* not delivered, item not stored or id not listed), the session keeps its
\* sessionId, duration and markers, so that it can still be finalized.
C3_FailedStopStaysRetryable ==
  (lastStop.done /\ ~(/\ lastStop.closed /\ lastStop.remote = "ok"
                      /\ lastStop.stored /\ lastStop.listed)) =>
    /\ sessionId = lastStop.sid
    /\ recordingTime = lastStop.duration
    /\ markers = lastStop.markers

\* C4: within one session (no start commits, isRecording stays true),
\* recordingTime changes only by a +1 tick taken in state Recording; it does
\* not increase while Paused and never decreases.
C4_TimeOnlyTicksWhileRecording ==
  [][(isRecording /\ isRecording' /\ sessionCount' = sessionCount) =>
       \/ recordingTime' = recordingTime
       \/ recordingTime' = recordingTime + 1 /\ ~isPaused]_vars

\* C5: the duration and the markers that stop sends to the tracker and
\* writes into the item recording_<sessionId> are the number of timer ticks
\* that elapsed in state Recording and the markers added in that session.
C5_ReportedStatsAreRecordedTime ==
  \A t \in stops :
    /\ t.pc # "unload" =>
         \E r \in stopRequests :
           r.sessionId = t.sid /\ r.duration = t.ticks /\ r.markers = t.added
    /\ \A i \in store :
         i.sessionId = t.sid => i.duration = t.ticks /\ i.markers = t.added

\* C5, the run of the claim: start, 5 ticks, addMarker, pause, 3 seconds
\* paused, resume, stop, with the report sent: duration 5, one marker at 5.
C5_Witness ==
  \E t \in stops :
    /\ t.pc = "notify"
    /\ t.ticks = 5 /\ t.paused = 3 /\ ~t.wasPaused
    /\ t.added = <<[time |-> 5, label |-> 1]>>
    /\ \E r \in stopRequests :
         r.sessionId = t.sid /\ r.duration = 5
         /\ r.markers = <<[time |-> 5, label |-> 1]>>

\* C6: on the mounted screen a heartbeat that fails while mode = local makes
\* mode cloud, and within
\* a session mode never leaves cloud (so it is entered at most once), whatever
\* later heartbeats, pauses and resumes do.
C6_FallbackIsSticky ==
  [][/\ (HeartbeatFailed /\ mounted /\ mode = "local") => mode' = "cloud"
     /\ (mode = "cloud" /\ sessionCount' = sessionCount) => mode' = "cloud"]_vars

\* C6: the session went to cloud, was paused and resumed (the interval now
\* running was made in mode cloud) and a later heartbeat is on its way.
C6_Witness ==
  /\ limits = SerialBeat
  /\ isRecording /\ ~isPaused /\ mode = "cloud"
  /\ heartbeat.active /\ heartbeat.mode = "cloud"
  /\ \E p \in BagToSet(pings) : p.mode = "cloud"

\* C7: whenever a start succeeds from Idle, the mode sent to the tracker and
\* the mode of the new session are local.
C7_FreshStartIsLocal ==
  (lastStart.done /\ lastStart.fromIdle) =>
    lastStart.sent = "local" /\ lastStart.mode = "local"

\* C8: sessionId is non-null exactly when a start has succeeded and the stop
\* of that session has not completed; isRecording implies sessionId non-null.
C8_SessionIdIffOpen ==
  /\ sessionId # Null <=> openSid # Null
  /\ isRecording => sessionId # Null

\* C9: no startRecording is invoked while the state is Recording or Paused:
\* a press of the Stop/Start button in those states begins no start.
C9_NoStartWhileRecording ==
  [][isRecording => /\ startsInvoked' = startsInvoked
                    /\ BagCardinality(starts') <= BagCardinality(starts)]_vars

\* C9: the button was pressed in state Recording (a stop is under way) and
\* no second start was invoked, although the run allows one.
C9_Witness ==
  /\ limits.starts > 1
  /\ startsInvoked = 1
  /\ \E t \in stops : t.pc = "unload"

\* a step in which stopRecording is invoked
StopInvoked ==
  \/ stopIgnored' /\ ~stopIgnored
  \/ \E t \in stops' : t \notin stops /\ t.pc = "unload"

\* C10: no stopRecording is invoked while no session is active (Idle): a
\* press of the Stop/Start button in Idle sends no stop request, writes
\* nothing and leaves the session state as it is.
C10_NoStopWhileIdle ==
  [][~isRecording =>
       /\ ~StopInvoked
       /\ startsInvoked' # startsInvoked =>
            UNCHANGED <<recording, session, refs, stops, stopRequests,
                        storage>>]_vars

\* C10: after a finished stop the button was pressed again in Idle; it
\* began a start, and no stop was invoked or ignored.
C10_Witness ==
  /\ lastStop.done
  /\ ~isRecording /\ stops = {} /\ ~stopIgnored
  /\ startsInvoked = 2 /\ BagCardinality(starts) = 1


\* C11: the lifecycle state (isRecording, isPaused) is one of Idle =
\* (false,false), Recording = (true,false), Paused = (true,true): isPaused
\* with isRecording false is never reached, also when a pause or resume
\* completes after a stop was requested.
C11_LifecycleStates ==
  mounted => <<isRecording, isPaused>> \in
               {<<FALSE, FALSE>>, <<TRUE, FALSE>>, <<TRUE, TRUE>>}

\* a permission request was answered in this step
PermissionAnswered ==
  \E s \in BagToSet(starts) :
    s.pc = "permission" /\ CopiesIn(s, starts') < CopiesIn(s, starts)

\* C12: a start whose permission request is answered with anything but
\* 'granted', or throws, does nothing more: the session state, the capture,
\* both intervals and the tracker are as before, and no start goes on.
C12_DeniedStartDoesNothing ==
  [][(PermissionAnswered /\ permission' # "granted") =>
       /\ UNCHANGED <<recording, session, refs, captures, tracker, storage>>
       /\ BagCardinality(starts') = BagCardinality(starts) - 1
       /\ \A s \in BagToSet(starts') : CopiesIn(s, starts') <= CopiesIn(s, starts)]_vars

\* a first start was refused: the screen is Idle with nothing running and
\* nothing sent
C12_Witness ==
  /\ permission \in {"denied", "undetermined", "threw"}
  /\ startsInvoked = 1 /\ starts = EmptyBag
  /\ ~isRecording /\ ~isPaused /\ sessionId = Null
  /\ timers = 0 /\ beats = 0 /\ startRequests = 0 /\ issued = 0

\* C13: when the session/start request fails (tracker unreachable), the
\* start goes on to the local capture with a session identifier of the
\* client's own, so that it ends in Recording with the timer running.
C13_TrackerDownStillRecords ==
  [][StartSessionFailed =>
       \E s \in BagToSet(starts') :
         /\ s.pc = "create" /\ Truthy(s.sid)
         /\ CopiesIn(s, starts') > CopiesIn(s, starts)]_vars

\* C14: addMarker appends in call order.  A call while recording appends
\* one marker, whose time is recordingTime at the call, and leaves the
\* markers before it as they are; within a session no marker is lost, so
\* that after k calls the sequence holds exactly those k markers.
C14_MarkersAppendInCallOrder ==
  [][/\ (added' # added /\ sessionCount' = sessionCount) =>
          /\ markers' = Append(markers, added'[Len(added')])
          /\ markers'[Len(markers')].time = recordingTime
     /\ (isRecording /\ isRecording' /\ sessionCount' = sessionCount) =>
          /\ Len(markers') >= Len(markers)
          /\ SubSeq(markers', 1, Len(markers)) = markers
          /\ markers' = added']_vars

\* C15: when a stop completes (from Recording or from Paused), the session
\* state is empty: isRecording and isPaused are false, recordingTime is 0,
\* sessionId is null, markers is empty and the capture handle is released.
C15_StopResetsSession ==
  [][(mounted /\ lastStop' # lastStop /\ lastStop'.closed) =>
       /\ ~isRecording' /\ ~isPaused'
       /\ recordingTime' = 0 /\ sessionId' = Null /\ markers' = <<>>
       /\ recording' = Null]_vars

\* C16: on the mounted screen the number of live 1-second intervals is one
\* when isRecording && !isPaused and zero otherwise, so never more than one:
\* no interval survives a pause, a stop or a pause/resume cycle.
C16_OneTimerIffRecording ==
  mounted => timers = (IF isRecording /\ ~isPaused THEN 1 ELSE 0)

\* a session that was paused and resumed runs on one interval
C16_Witness ==
  /\ mounted /\ isRecording /\ ~isPaused
  /\ pausedSecs > 0 /\ recordingTime > 0
  /\ timers = 1 /\ timerActive

\* C17: both background activities are cancelled on every exit path.  While
\* the session is paused or stopped (also by a stop that fails later) or the
\* screen is torn down, no timer tick and no heartbeat tick fires, and there
\* is never more than one live heartbeat interval.
C17_NoTickAfterExit ==
  [][/\ beats <= 1 /\ beats' <= 1
     /\ (~mounted \/ ~isRecording \/ isPaused) =>
          /\ ~Tick /\ ~HeartbeatTick
          /\ timers = 0 /\ beats = 0]_vars

\* the screen was torn down in the middle of a running session that had a
\* heartbeat request in flight
C17_Witness ==
  /\ ~mounted /\ isRecording /\ ~isPaused /\ Truthy(sessionId)
  /\ pings # EmptyBag
  /\ timers = 0 /\ beats = 0

\* C18: while isRecording is true a heartbeat carrying the sessionId is
\* sent every 10 seconds: in a run where the session stays active for ever
\* (a run in which heartbeats are explored), heartbeats are sent again and
\* again, whatever pause and resume calls were made.
C18_HeartbeatWhileRecording ==
  (<>[](limits.pings > 0 /\ mounted /\ isRecording /\ Truthy(sessionId)))
    => []<><<HeartbeatTick>>_vars

\* C19: no operation blocks for ever: every startRecording and every
\* stopRecording invocation ends, with success or with a failure, also in
\* the runs where the tracker leaves requests unanswered.
C19_NoOperationBlocks ==
  /\ (starts # EmptyBag) ~> (starts = EmptyBag)
  /\ (stops # {}) ~> (stops = {})

\* C20: pause is idempotent.  An invocation of the pause handler made while
\* the session is Paused changes nothing when it completes: isPaused stays
\* true, no timer runs and the capture stays suspended.
C20_PauseIsIdempotent ==
  [][\A p \in BagToSet(pauses) :
       (/\ p.wasPaused /\ CopiesIn(p, pauses') < CopiesIn(p, pauses)
        /\ mounted /\ isRecording /\ isPaused /\ recording = p.rec) =>
         /\ isPaused' /\ timers' = 0
         /\ captures'[p.rec] = captures[p.rec]]_vars

\* C21: start follows the order permission, tracker session, local capture.
\* The session/start request is sent only when permission was granted; a
\* capture is created only by a start the tracker has answered; and the
\* state becomes Recording, with timer and heartbeat running, only when the
\* tracker session (an id the tracker issued) and the capture both exist.
C21_StartOrder ==
  [][/\ startRequests' > startRequests =>
          PermissionAnswered /\ permission' = "granted"
     /\ Len(captures') > Len(captures) =>
          \E s \in BagToSet(starts) :
            s.pc = "create" /\ CopiesIn(s, starts') < CopiesIn(s, starts)
     /\ (~isRecording /\ isRecording') =>
          /\ recording' # Null /\ captures'[recording'] = "recording"
          /\ Truthy(sessionId') /\ sessionId' <= issued
          /\ timers' = 1 /\ beats' = 1]_vars

\* C22: when a stop completes successfully (its item and the list were
\* written), the store holds exactly one item for its sessionId, with that
\* session's duration and markers and status pending_upload, and the list
\* recording_queue is the list as it was with that sessionId appended last.
C22_SuccessfulStopIsQueued ==
  [][(lastStop' # lastStop /\ lastStop'.listed) =>
       /\ Cardinality({i \in store' : i.sessionId = lastStop'.sid}) = 1
       /\ \A i \in store' :
            i.sessionId = lastStop'.sid =>
              /\ i.duration = lastStop'.duration
              /\ i.markers = lastStop'.markers
              /\ i.status = "pending_upload"
       /\ queue' = Append(queue, lastStop'.sid)]_vars

\* C23: the fallback notice belongs to the transition local -> cloud only.
\* Within a session a step taken while mode is already cloud shows no
\* further notice and leaves mode as it is, so a session shows at most one
\* notice however many heartbeats fail.
C23_OneFallbackNotice ==
  [][/\ (mode = "cloud" /\ sessionCount' = sessionCount) =>
          notices' = notices /\ mode' = mode
     /\ notices' <= 1]_vars

\* C24: the final reset of a stop never clobbers the session opened by a
\* start that was invoked while that stop was still finalizing: no such
\* session has isRecording = true with sessionId = null, nor isRecording =
\* true without a capture handle.
C24_ResetNeverClobbersStart ==
  (mounted /\ isRecording /\ lastStart.duringStop) =>
    (sessionId # Null /\ recording # Null)

\* C25: at most one session is created per start.  Of the start invocations
\* that overlap while the screen is Idle at most one gets as far as asking
\* the tracker for a session id or creating a capture.
C25_OneSessionPerStart ==
  \A s1, s2 \in BagToSet(starts) :
    (s1.pc # "permission" /\ s2.pc # "permission") =>
      s1 = s2 /\ CopiesIn(s1, starts) = 1

\* C26: mode changes only while a session is active.  Once the session was
\* stopped (isRecording is false) no step changes mode or shows the fallback
\* notice, also not the failure of a heartbeat that was already in flight.
C26_IdleNeverSwitchesToCloud ==
  [][(mounted /\ ~isRecording /\ ~isRecording') =>
       mode' = mode /\ notices' = notices]_vars

\* C27: in every state of the storage each session id in recording_queue
\* has its item recording_<id> stored with status pending_upload, also after
\* a storage write failed part-way, and no id is in the list twice.
C27_QueueIdsAreStored ==
  /\ \A k \in 1..Len(queue) :
       \E i \in store : i.sessionId = queue[k] /\ i.status = "pending_upload"
  /\ \A k, l \in 1..Len(queue) : k # l => queue[k] # queue[l]

\* a second stop stored its item and failed before the list was written,
\* after a first stop had been queued
C27_Witness ==
  /\ lastStop.done /\ lastStop.stored /\ ~lastStop.listed
  /\ Len(queue) = 1 /\ queue[1] # lastStop.sid
  /\ Cardinality(store) = 2

\* C28: a failed start leaves no orphaned tracker session.  Once no start
\* and no stop is in flight any more, every session id the tracker issued
\* is the id of the active session or was reported by a session/stop
\* request.
C28_NoOrphanedTrackerSession ==
  (starts = EmptyBag /\ stops = {}) =>
    \A id \in 1..issued :
      \/ isRecording /\ sessionId = id
      \/ \E r \in stopRequests : r.sessionId = id

\* C29: every session starts clean.  The commit of a start makes
\* isPaused = false, recordingTime = 0 and markers = [], whatever an earlier
\* session left behind, and what a stop reports under a session id is the
\* time counted and the markers added since that commit.
C29_SessionStartsClean ==
  [][/\ sessionCount' = sessionCount + 1 =>
          /\ isRecording' /\ ~isPaused'
          /\ recordingTime' = 0 /\ markers' = <<>>
     /\ \A t \in stops' :
          t.duration = t.ticks /\ t.markers = t.added]_vars

\* a second session was started after the stop of the first failed before
\* its reset and left its elapsed time behind
C29_Witness ==
  /\ sessionCount = 2 /\ isRecording /\ sessionId = 2 /\ stops = {}
  /\ lastStop.done /\ lastStop.alerted /\ lastStop.sid = 1
  /\ lastStop.duration = 1
  /\ recordingTime = 0 /\ markers = <<>> /\ ~isPaused

\* C30: a running session can always be stopped.  No stopRecording
\* invocation, which the button makes only while isRecording is true, returns
\* at its guard without doing anything, whatever body the tracker answered
\* the start request with.
C30_StopIsNeverIgnored ==
  ~stopIgnored
====
